---- MODULE Spec2Model ----
(***************************************************************************)
(* A model of export_spotify_playlist.py: the cursor paginator, the row    *)
(* normaliser, the created-date aggregate and its ranking, the single      *)
(* export with audio-feature enrichment, the document writers, the         *)
(* full-site run and the playlist-identifier extraction.                   *)
(*                                                                         *)
(* Python values are tagged records: a missing dict key is Absent, a JSON  *)
(* null is None, and strings, integers, lists and dicts carry their value. *)
(* A string is a sequence of one-character strings, so that comparison,    *)
(* search, strip and formatting are computed and not assumed.              *)
(***************************************************************************)
EXTENDS Integers, Sequences, FiniteSets, TLC

VARIABLES
    pc,                      \* the position of the run
    pages, results, fetches, \* fetch_tracks: the remote page chain, the cursor, the calls made
    items,                   \* the memberships fetched
    rows, created,           \* the results of to_rows and get_playlist_created_date
    s, playlist_id,          \* extract_playlist_id: its argument and its result
    args, remote, files,     \* the command line, the remote service, the files written
    output,                  \* the path the export writes to
    err,                     \* the exception that ended the run, "" when none
    playlists, top_albums, created_date_playlists,  \* the full-site aggregates
    idx, log                 \* the full-site loop index and the order of its effects

fetchVars == <<pages, results, fetches>>
rowVars == <<rows, created>>
idVars == <<s, playlist_id>>
ioVars == <<args, remote, files, output, err>>
siteVars == <<playlists, top_albums, created_date_playlists, idx, log>>
vars == <<pc, items, fetchVars, rowVars, idVars, ioVars, siteVars>>

FetchIdle == pages = <<>> /\ results = 0 /\ fetches = 0
RowsIdle == rows = <<>> /\ created = <<>>
IdIdle == s = <<>> /\ playlist_id = <<>>
IoIdle == args = <<>> /\ remote = <<>> /\ files = <<>> /\ output = <<>> /\ err = ""
SiteIdle ==
    /\ playlists = <<>> /\ top_albums = <<>> /\ created_date_playlists = <<>>
    /\ idx = 0 /\ log = <<>>

(* ------------------------------ bounds -------------------------------- *)
MaxPages == 3
MaxPageLen == 2
MaxItems == 2
MaxChunks == 3
MaxSitePlaylists == 2
MaxRanked == 11

(* --------------------------- Python values ---------------------------- *)
Absent == [k |-> "absent"]
None == [k |-> "null"]
PyStr(x) == [k |-> "str", v |-> x]
PyInt(n) == [k |-> "int", v |-> n]
PyList(x) == [k |-> "list", v |-> x]
PyDict(d) == [k |-> "dict", v |-> d]

SeqsUpTo(S, n) == UNION {[1..m -> S] : m \in 0..n}

\* The truth value Python gives a value (`if x`, `x or y`, `not x`).
Truthy(x) ==
    CASE x.k = "absent" -> FALSE
      [] x.k = "null" -> FALSE
      [] x.k = "str" -> x.v # <<>>
      [] x.k = "int" -> x.v # 0
      [] x.k = "list" -> x.v # <<>>
      [] x.k = "dict" -> \E f \in DOMAIN x.v : x.v[f].k # "absent"

\* d.get(key, default) on the fields of a dict; d.get(key) is Get(d, key, None).
Get(d, key, default) ==
    IF key \in DOMAIN d /\ d[key].k # "absent" THEN d[key] ELSE default

\* x or y
Or(x, y) == IF Truthy(x) THEN x ELSE y

RECURSIVE Concat(_)
Concat(ss) == IF ss = <<>> THEN <<>> ELSE Head(ss) \o Concat(Tail(ss))

(* ------------------------------ strings ------------------------------- *)
Digits == <<"0", "1", "2", "3", "4", "5", "6", "7", "8", "9">>

\* ord(c) for the characters the compared strings are made of.
Ord(c) ==
    CASE c = "-" -> 45
      [] c = "0" -> 48 [] c = "1" -> 49 [] c = "2" -> 50 [] c = "3" -> 51
      [] c = "4" -> 52 [] c = "5" -> 53 [] c = "6" -> 54 [] c = "7" -> 55
      [] c = "8" -> 56 [] c = "9" -> 57
      [] c = ":" -> 58
      [] c = "A" -> 65 [] c = "B" -> 66 [] c = "C" -> 67
      [] c = "T" -> 84 [] c = "U" -> 85 [] c = "Z" -> 90
      [] c = "a" -> 97 [] c = "b" -> 98 [] c = "c" -> 99
      [] c = "k" -> 107 [] c = "n" -> 110 [] c = "o" -> 111 [] c = "w" -> 119

\* a < b on Python strings: by code point, a proper prefix first.
RECURSIVE StrLess(_, _)
StrLess(a, b) ==
    IF b = <<>> THEN FALSE
    ELSE IF a = <<>> THEN TRUE
    ELSE IF Head(a) = Head(b) THEN StrLess(Tail(a), Tail(b))
    ELSE Ord(Head(a)) < Ord(Head(b))

\* str(n) for an integer.
RECURSIVE IntToStr(_)
IntToStr(n) ==
    IF n < 0 THEN <<"-">> \o IntToStr(0 - n)
    ELSE IF n < 10 THEN <<Digits[n + 1]>>
    ELSE IntToStr(n \div 10) \o <<Digits[(n % 10) + 1]>>

\* f"{s:02d}"
Pad2(n) == IF n >= 0 /\ n < 10 THEN <<"0">> \o IntToStr(n) ELSE IntToStr(n)

\* ", ".join(parts)
RECURSIVE Join(_)
Join(parts) ==
    IF parts = <<>> THEN <<>>
    ELSE IF Len(parts) = 1 THEN parts[1]
    ELSE parts[1] \o <<",", " ">> \o Join(Tail(parts))

\* mmss(ms): minutes, a colon, seconds on two digits.
mmss(ms) ==
    LET total_seconds == ms \div 1000
        mins == total_seconds \div 60
        secs == total_seconds % 60
    IN IntToStr(mins) \o <<":">> \o Pad2(secs)

(* ---------------------- fetch_tracks (paginator) ---------------------- *)
ItemIds == {"a", "b"}

\* sp.next(results): the page the cursor names, or None (0) on a null cursor.
sp_next(r) == IF r < Len(pages) THEN r + 1 ELSE 0

\* items = batch, a slip for items.extend(batch).
extend_overwrites(acc, batch) == batch
\* items.extend(batch)
extend(acc, batch) == acc \o batch

InitFetch ==
    /\ pc = "start"
    /\ \E n \in 1..MaxPages : pages \in [1..n -> SeqsUpTo(ItemIds, MaxPageLen)]
    /\ results = 0
    /\ items = <<>>
    /\ fetches = 0
    /\ RowsIdle /\ IdIdle /\ IoIdle /\ SiteIdle

\* results = sp.playlist_tracks(playlist_id)
PlaylistTracks ==
    /\ pc = "start"
    /\ results' = 1
    /\ fetches' = 1
    /\ pc' = "loop"
    /\ UNCHANGED <<pages, items, rowVars, idVars, ioVars, siteVars>>

\* while results: items.extend(results['items']); results = sp.next(results)
LoopBody ==
    /\ pc = "loop"
    /\ results # 0
    /\ items' = extend(items, pages[results])
    /\ results' = sp_next(results)
    /\ fetches' = IF results' # 0 THEN fetches + 1 ELSE fetches
    /\ UNCHANGED <<pc, pages, rowVars, idVars, ioVars, siteVars>>

\* return items
FetchReturn ==
    /\ pc = "loop"
    /\ results = 0
    /\ pc' = "done"
    /\ UNCHANGED <<items, fetchVars, rowVars, idVars, ioVars, siteVars>>

NextFetch == PlaylistTracks \/ LoopBody \/ FetchReturn

SpecFetch == InitFetch /\ [][NextFetch]_vars

\* C1: when fetch_tracks returns, its result is exactly the concatenation of
\* the pages' items in page order (nothing added, dropped, duplicated or
\* reordered), one fetch was issued per page, and while it runs the
\* accumulated list is the concatenation of the pages already consumed.
C1_FetchAllInOrder ==
    /\ pc = "done" =>
          /\ items = Concat(pages)
          /\ fetches = Len(pages)
          /\ results = 0
    /\ pc = "loop" =>
          LET consumed == IF results = 0 THEN Len(pages) ELSE results - 1
          IN /\ items = Concat(SubSeq(pages, 1, consumed))
             /\ fetches = IF results = 0 THEN Len(pages) ELSE results

C1_Witness ==
    /\ pc = "done"
    /\ Len(pages) = 3
    /\ Len(pages[2]) = 0
    /\ Len(pages[1]) = 2
    /\ Len(pages[3]) = 1
    /\ pages[1][1] # pages[1][2]
    /\ items = pages[1] \o pages[3]

(* ------------------------- to_rows (normaliser) ----------------------- *)
BaseFields == <<"title", "artists", "album", "duration_ms", "duration_mm_ss",
                "added_at", "spotify_url", "spotify_uri">>

EmptyStr == PyStr(<<>>)
EmptyDict == PyDict(<<>>)

\* [a.get("name", "") for a in track.get("artists", [])], joined with ", ".
\* Iterating None, .get on a non-dict and joining a non-string all raise.
ArtistsOf(track) ==
    LET a == Get(track, "artists", PyList(<<>>))
    IN IF a.k # "list" THEN [ok |-> FALSE, err |-> "TypeError"]
       ELSE IF \E j \in 1..Len(a.v) : a.v[j].k # "dict"
            THEN [ok |-> FALSE, err |-> "AttributeError"]
       ELSE LET names == [j \in 1..Len(a.v) |-> Get(a.v[j].v, "name", EmptyStr)]
            IN IF \E j \in 1..Len(names) : names[j].k # "str"
               THEN [ok |-> FALSE, err |-> "TypeError"]
               ELSE [ok |-> TRUE,
                     val |-> PyStr(Join([j \in 1..Len(names) |-> names[j].v]))]

\* track.get("album", {}).get("name", "")
AlbumOf(track) ==
    LET al == Get(track, "album", EmptyDict)
    IN IF al.k # "dict" THEN [ok |-> FALSE, err |-> "AttributeError"]
       ELSE [ok |-> TRUE, val |-> Get(al.v, "name", EmptyStr)]

\* int(track.get("duration_ms") or 0)
DurationOf(track) == Or(Get(track, "duration_ms", None), PyInt(0)).v

\* (track.get("external_urls") or {}).get("spotify", "")
UrlOf(track) ==
    Get(Or(Get(track, "external_urls", None), EmptyDict).v, "spotify", EmptyStr)

\* item.get("track") or {}
TrackOf(item) == Or(Get(item, "track", None), EmptyDict)

\* One pass of the loop body: the membership is skipped, yields a row, or raises.
RowOf(item) ==
    LET added_at == Get(item, "added_at", EmptyStr)
        track == TrackOf(item)
    IN IF ~Truthy(track) THEN [ok |-> TRUE, skip |-> TRUE]
       ELSE LET artists == ArtistsOf(track.v)
                album == AlbumOf(track.v)
                duration_ms == DurationOf(track.v)
            IN IF ~artists.ok THEN [ok |-> FALSE, err |-> artists.err]
               ELSE IF ~album.ok THEN [ok |-> FALSE, err |-> album.err]
               ELSE [ok |-> TRUE, skip |-> FALSE,
                     row |-> [keys |-> BaseFields,
                              v |-> [title |-> Get(track.v, "name", EmptyStr),
                                     artists |-> artists.val,
                                     album |-> album.val,
                                     duration_ms |-> PyInt(duration_ms),
                                     duration_mm_ss |-> PyStr(mmss(duration_ms)),
                                     added_at |-> added_at,
                                     spotify_url |-> UrlOf(track.v),
                                     spotify_uri |-> Get(track.v, "uri", EmptyStr)]]]

\* to_rows(items): the rows in order, or the first error raised.
RECURSIVE ToRowsFrom(_, _)
ToRowsFrom(its, acc) ==
    IF its = <<>> THEN [ok |-> TRUE, rows |-> acc]
    ELSE LET r == RowOf(Head(its))
         IN IF ~r.ok THEN [ok |-> FALSE, err |-> r.err]
            ELSE IF r.skip THEN ToRowsFrom(Tail(its), acc)
            ELSE ToRowsFrom(Tail(its), Append(acc, r.row))

to_rows(its) == ToRowsFrom(its, <<>>)

(* ---------------------- get_playlist_created_date --------------------- *)
Unknown == <<"U", "n", "k", "n", "o", "w", "n">>

\* min(xs) on a non-empty list of strings.
RECURSIVE MinStr(_)
MinStr(xs) ==
    IF Len(xs) = 1 THEN xs[1]
    ELSE LET m == MinStr(Tail(xs))
         IN IF StrLess(m, xs[1]) THEN m ELSE xs[1]

\* [item.get('added_at') for item in items if item.get('added_at')]
RECURSIVE AddedAts(_)
AddedAts(its) ==
    IF its = <<>> THEN <<>>
    ELSE LET a == Get(Head(its), "added_at", None)
         IN IF Truthy(a) THEN <<a.v>> \o AddedAts(Tail(its))
            ELSE AddedAts(Tail(its))

\* The memberships that yield a row (a truthy nested track).
RECURSIVE WithTrack(_)
WithTrack(its) ==
    IF its = <<>> THEN <<>>
    ELSE IF Truthy(TrackOf(Head(its))) THEN <<Head(its)>> \o WithTrack(Tail(its))
    ELSE WithTrack(Tail(its))

\* The same over the memberships that yield a row only.
created_date_rows_only(its) ==
    IF WithTrack(its) = <<>> THEN Unknown
    ELSE IF AddedAts(WithTrack(its)) = <<>> THEN Unknown
    ELSE MinStr(AddedAts(WithTrack(its)))
\* get_playlist_created_date, given the memberships fetch_tracks returned.
get_playlist_created_date(its) ==
    IF its = <<>> THEN Unknown
    ELSE IF AddedAts(its) = <<>> THEN Unknown
    ELSE MinStr(AddedAts(its))

(* --------------------------- membership inputs ------------------------ *)
D2021 == <<"2", "0", "2", "1">>
D2022 == <<"2", "0", "2", "2">>
D2023 == <<"2", "0", "2", "3">>

TrackFields == {"name", "artists", "album", "duration_ms", "external_urls", "uri", "id"}

Artist(n) == PyDict([name |-> n])

Complete ==
    [name |-> PyStr(<<"T">>),
     artists |-> PyList(<<Artist(PyStr(<<"A">>))>>),
     album |-> PyDict([name |-> PyStr(<<"L">>)]),
     duration_ms |-> PyInt(65000),
     external_urls |-> PyDict([spotify |-> PyStr(<<"u">>)]),
     uri |-> PyStr(<<"r">>),
     id |-> PyStr(<<"i">>)]

\* Track objects: complete, with one field absent or null, with a nested
\* field absent or null, with every field absent, and with other durations.
TrackShapes ==
    {Complete, [f \in TrackFields |-> Absent]}
    \cup {[Complete EXCEPT ![f] = x] : f \in TrackFields, x \in {Absent, None}}
    \cup {[Complete EXCEPT !.album = PyDict([name |-> x])] : x \in {Absent, None}}
    \cup {[Complete EXCEPT !.external_urls = PyDict([spotify |-> x])] : x \in {Absent, None}}
    \cup {[Complete EXCEPT !.artists = PyList(x)] :
             x \in {<<>>, <<Artist(PyStr(<<"A">>)), Artist(PyStr(<<"B">>))>>,
                    <<Artist(Absent)>>, <<Artist(None)>>}}
    \cup {[Complete EXCEPT !.duration_ms = PyInt(x)] : x \in {0, 999, 3599000}}

AddedAtShapes == {Absent, None, EmptyStr, PyStr(D2021), PyStr(D2022), PyStr(D2023)}

Membership(a, t) == [added_at |-> a, track |-> t]

Memberships ==
    {Membership(PyStr(D2022), PyDict(t)) : t \in TrackShapes}
    \cup {Membership(a, t) : a \in AddedAtShapes,
                             t \in {PyDict(Complete), None, Absent}}

InitRows ==
    /\ pc = "start"
    /\ \E n \in 0..MaxItems : items \in [1..n -> Memberships]
    /\ rows = <<>>
    /\ created = <<>>
    /\ FetchIdle /\ IdIdle /\ IoIdle /\ SiteIdle

\* rows = to_rows(items): the rows, or the exception that leaves it.
CallToRows ==
    /\ pc = "start"
    /\ LET r == to_rows(items)
       IN IF r.ok
          THEN rows' = r.rows /\ err' = "" /\ pc' = "rows"
          ELSE rows' = <<>> /\ err' = r.err /\ pc' = "raised"
    /\ UNCHANGED <<items, created, fetchVars, idVars, args, remote, files, output, siteVars>>

\* created_date = get_playlist_created_date(sp, playlist_id)
CallCreatedDate ==
    /\ pc = "start"
    /\ created' = get_playlist_created_date(items)
    /\ pc' = "created"
    /\ UNCHANGED <<items, rows, fetchVars, idVars, ioVars, siteVars>>

NextRows == CallToRows \/ CallCreatedDate

SpecRows == InitRows /\ [][NextRows]_vars

\* The memberships whose nested track is present and not null.
RECURSIVE NonNull(_)
NonNull(its) ==
    IF its = <<>> THEN <<>>
    ELSE IF Head(its).track.k \in {"absent", "null"} THEN NonNull(Tail(its))
    ELSE <<Head(its)>> \o NonNull(Tail(its))

\* The value a field takes when the code's default applies: the field itself
\* when it is present and not null, the default otherwise.
OrDefault(x, default) == IF x.k \in {"absent", "null"} THEN default ELSE x

\* C2: to_rows emits one row per membership whose nested track is non-null and
\* none for the others, in the memberships' relative order, and every row's
\* duration_mm_ss is mmss of its duration_ms.
C2_OneRowPerNonNullTrack ==
    pc \in {"rows", "raised"} =>
        /\ pc = "rows"
        /\ Len(rows) = Len(NonNull(items))
        /\ \A j \in 1..Len(rows) :
              LET row == rows[j].v
                  item == NonNull(items)[j]
              IN /\ item.added_at.k = "str" => row.added_at = item.added_at
                 /\ item.track.v.name.k = "str" => row.title = item.track.v.name
                 /\ row.duration_mm_ss = PyStr(mmss(row.duration_ms.v))

\* C5: for a membership with a non-null track, whichever optional fields are
\* absent or null, to_rows raises nothing and the row carries the defaults:
\* "" for title, album, added_at, spotify_url and spotify_uri, "" for the
\* joined artists of a missing list, 0 for duration_ms.
C5_MissingFieldsDefaulted ==
    pc \in {"rows", "raised"} =>
        /\ pc = "rows"
        /\ Len(rows) = Len(NonNull(items))
        /\ \A j \in 1..Len(rows) :
              LET row == rows[j].v
                  item == NonNull(items)[j]
                  track == item.track.v
              IN /\ row.title = OrDefault(track.name, EmptyStr)
                 /\ row.added_at = OrDefault(item.added_at, EmptyStr)
                 /\ row.spotify_uri = OrDefault(track.uri, EmptyStr)
                 /\ row.duration_ms = OrDefault(track.duration_ms, PyInt(0))
                 /\ track.album.k \in {"absent", "null"} => row.album = EmptyStr
                 /\ track.album.k = "dict" =>
                       row.album = OrDefault(track.album.v.name, EmptyStr)
                 /\ track.artists.k \in {"absent", "null"} => row.artists = EmptyStr
                 /\ track.external_urls.k \in {"absent", "null"} =>
                       row.spotify_url = EmptyStr
                 /\ track.external_urls.k = "dict" =>
                       row.spotify_url = OrDefault(track.external_urls.v.spotify, EmptyStr)

\* The timestamps of the memberships at the positions js.
Stamps(its, js) == {its[j].added_at.v : j \in {n \in js : Truthy(its[n].added_at)}}

\* r is the least element of S, or "Unknown" when S is empty.
IsEarliest(r, S) ==
    IF S = {} THEN r = Unknown
    ELSE r \in S /\ \A x \in S : ~StrLess(x, r)

\* C3 as stated: created_date is the least added_at over the non-dropped
\* memberships only (those with a non-null nested track).
C3_EarliestOverRowsOnly ==
    pc = "created" =>
        IsEarliest(created,
                   Stamps(items, {j \in 1..Len(items) :
                                     items[j].track.k \notin {"absent", "null"}}))

\* C3 as amended: created_date is the least non-empty added_at over all of the
\* playlist's memberships, those with a null or missing track included, and
\* "Unknown" when no membership has one (also for zero memberships).
C3_EarliestOverAllMemberships ==
    pc = "created" => IsEarliest(created, Stamps(items, 1..Len(items)))

C3_Witness ==
    /\ pc = "created"
    /\ Len(items) = 2
    /\ items[1].track \in {None, Absent}
    /\ items[2].track.k = "dict"
    /\ Truthy(items[1].added_at)
    /\ Truthy(items[2].added_at)
    /\ StrLess(items[1].added_at.v, items[2].added_at.v)
    /\ created = items[1].added_at.v

(* ------------------------- extract_playlist_id ------------------------ *)
AlnumChars ==
    {"a", "b", "c", "d", "e", "f", "g", "h", "i", "j", "k", "l", "m",
     "n", "o", "p", "q", "r", "s", "t", "u", "v", "w", "x", "y", "z",
     "A", "B", "C", "D", "E", "F", "G", "H", "I", "J", "K", "L", "M",
     "N", "O", "P", "Q", "R", "S", "T", "U", "V", "W", "X", "Y", "Z",
     "0", "1", "2", "3", "4", "5", "6", "7", "8", "9"}

\* [A-Za-z0-9]
IsAlnum(c) == c \in AlnumChars

\* The characters str.strip() removes, among those the inputs hold.
IsSpace(c) == c \in {" ", "\t", "\n"}

\* "playlist/" and "spotify:playlist:", the literal heads of the two patterns.
LinkHead == <<"p", "l", "a", "y", "l", "i", "s", "t", "/">>
LocatorHead == <<"s", "p", "o", "t", "i", "f", "y", ":",
                 "p", "l", "a", "y", "l", "i", "s", "t", ":">>

\* ([A-Za-z0-9]+) from position i: the longest run, the group being greedy.
RECURSIVE AlnumRun(_, _)
AlnumRun(str, i) ==
    IF i <= Len(str) /\ IsAlnum(str[i]) THEN <<str[i]>> \o AlnumRun(str, i + 1)
    ELSE <<>>

\* The pattern head + ([A-Za-z0-9]+) matches at position i.
MatchAt(str, head, i) ==
    /\ i + Len(head) <= Len(str)
    /\ SubSeq(str, i, i + Len(head) - 1) = head
    /\ IsAlnum(str[i + Len(head)])

\* re.search: the leftmost position where the pattern matches, scanning from i.
RECURSIVE re_search(_, _, _)
re_search(str, head, i) ==
    IF i > Len(str) THEN [found |-> FALSE]
    ELSE IF MatchAt(str, head, i)
         THEN [found |-> TRUE, group |-> AlnumRun(str, i + Len(head))]
         ELSE re_search(str, head, i + 1)

RECURSIVE lstrip(_)
lstrip(str) ==
    IF str # <<>> /\ IsSpace(Head(str)) THEN lstrip(Tail(str)) ELSE str

RECURSIVE rstrip(_)
rstrip(str) ==
    IF str # <<>> /\ IsSpace(str[Len(str)]) THEN rstrip(SubSeq(str, 1, Len(str) - 1))
    ELSE str

strip(str) == rstrip(lstrip(str))

\* The two searches tried in the other order.
extract_locator_first(str) ==
    LET m1 == re_search(str, LocatorHead, 1)
        m2 == re_search(str, LinkHead, 1)
    IN IF m1.found THEN m1.group
       ELSE IF m2.found THEN m2.group
       ELSE strip(str)
extract_playlist_id(str) ==
    LET m1 == re_search(str, LinkHead, 1)
        m2 == re_search(str, LocatorHead, 1)
    IN IF m1.found THEN m1.group
       ELSE IF m2.found THEN m2.group
       ELSE strip(str)

\* The pieces the arguments are put together from.
Chunks ==
    {LinkHead, LocatorHead, <<"p", "l", "a", "y", "l", "i", "s", "t">>,
     <<"a">>, <<"B">>, <<"7">>, <<"?">>, <<" ">>, <<"\n">>, <<"/">>, <<":">>}

InitId ==
    /\ pc = "start"
    /\ \E n \in 0..MaxChunks : \E cs \in [1..n -> Chunks] : s = Concat(cs)
    /\ playlist_id = <<>>
    /\ items = <<>>
    /\ FetchIdle /\ RowsIdle /\ IoIdle /\ SiteIdle

\* playlist_id = extract_playlist_id(args.playlist)
CallExtract ==
    /\ pc = "start"
    /\ playlist_id' = extract_playlist_id(s)
    /\ pc' = "done"
    /\ UNCHANGED <<s, items, fetchVars, rowVars, ioVars, siteVars>>

NextId == CallExtract

SpecId == InitId /\ [][NextId]_vars

\* The positions of str where head is followed by an alphanumeric character.
Hits(str, head) == {i \in 1..Len(str) : MatchAt(str, head, i)}

\* r is the whole alphanumeric run that follows the first hit of head in str.
IsRunAfterFirst(r, str, head) ==
    \E i \in Hits(str, head) :
        /\ \A j \in Hits(str, head) : i <= j
        /\ LET from == i + Len(head)
           IN /\ Len(r) >= 1
              /\ from + Len(r) - 1 <= Len(str)
              /\ r = SubSeq(str, from, from + Len(r) - 1)
              /\ \A n \in 1..Len(r) : IsAlnum(r[n])
              /\ from + Len(r) <= Len(str) => ~IsAlnum(str[from + Len(r)])

\* r is str without its leading and trailing whitespace.
IsTrimmed(r, str) ==
    \E a \in 0..Len(str) :
        /\ a + Len(r) <= Len(str)
        /\ r = SubSeq(str, a + 1, a + Len(r))
        /\ \A n \in 1..a : IsSpace(str[n])
        /\ \A n \in (a + Len(r) + 1)..Len(str) : IsSpace(str[n])
        /\ r # <<>> => ~IsSpace(r[1]) /\ ~IsSpace(r[Len(r)])

\* C10: extract_playlist_id returns the alphanumeric run after the first
\* "playlist/" that one follows when there is such a place; otherwise the run
\* after the first "spotify:playlist:" that one follows; otherwise the input
\* without its leading and trailing whitespace. It returns for every input.
C10_LinkThenLocatorThenTrimmed ==
    pc = "done" =>
        IF Hits(s, LinkHead) # {} THEN IsRunAfterFirst(playlist_id, s, LinkHead)
        ELSE IF Hits(s, LocatorHead) # {} THEN IsRunAfterFirst(playlist_id, s, LocatorHead)
        ELSE IsTrimmed(playlist_id, s)

C10_Witness ==
    /\ pc = "done"
    /\ Hits(s, LinkHead) # {}
    /\ Hits(s, LocatorHead) # {}
    /\ ~IsRunAfterFirst(playlist_id, s, LocatorHead)
    /\ playlist_id = <<"a">>

(* --------------------------- document writers ------------------------- *)
\* str(x), as an f-string and the csv writer spell a value.
StrOf(x) ==
    CASE x.k = "str" -> x.v
      [] x.k = "int" -> IntToStr(x.v)
      [] x.k = "null" -> <<"N", "o", "n", "e">>

\* row.get(field, "")
RowGet(row, field) == IF field \in DOMAIN row.v THEN row.v[field] ELSE EmptyStr

\* A path is a sequence of pieces, the piece ".html" being each place the text
\* ".html" occurs in it. output.replace('.html', '.txt') rewrites every one.
replace_html_txt(path) ==
    [j \in 1..Len(path) |-> IF path[j] = ".html" THEN ".txt" ELSE path[j]]

\* f"{i}. {title} - {artists}\n" for each row, after f"{playlist_name}\n\n".
NumberedList(playlist_name, rws) ==
    [kind |-> "txt",
     name |-> playlist_name,
     lines |-> [j \in 1..Len(rws) |->
                  IntToStr(j) \o <<".", " ">> \o StrOf(RowGet(rws[j], "title"))
                  \o <<" ", "-", " ">> \o StrOf(RowGet(rws[j], "artists"))]]

\* The header cell's class: 'duration', 'url' (the field name holds "url") or none.
CellClass(field) ==
    IF field = "duration_mm_ss" THEN "duration"
    ELSE IF field = "spotify_url" THEN "url"
    ELSE ""

\* The hypertext document: its title, the link to the numbered list, one
\* header cell per field and one table row per row. The spotify_url cell is a
\* link to the value, the others show str(value).
HtmlDocument(playlist_name, fieldnames, rws, txt_output) ==
    [kind |-> "html",
     title |-> playlist_name,
     download |-> txt_output,
     header |-> [j \in 1..Len(fieldnames) |->
                   [field |-> fieldnames[j], class |-> CellClass(fieldnames[j])]],
     body |-> [j \in 1..Len(rws) |->
                 [n \in 1..Len(fieldnames) |->
                    IF fieldnames[n] = "spotify_url"
                    THEN [href |-> StrOf(RowGet(rws[j], fieldnames[n]))]
                    ELSE [text |-> StrOf(RowGet(rws[j], fieldnames[n]))]]]]

\* generate_html: the numbered list is written to txt_output, then the
\* document to output; each open(path, "w") replaces what the path held.
generate_html(fs, playlist_name, fieldnames, rws, out) ==
    LET txt_output == replace_html_txt(out)
        fs1 == (txt_output :> NumberedList(playlist_name, rws)) @@ fs
    IN (out :> HtmlDocument(playlist_name, fieldnames, rws, txt_output)) @@ fs1

\* list(rows[0].keys()) if rows else the fixed eight names
FieldNames(rws) == IF rws # <<>> THEN rws[1].keys ELSE BaseFields

\* How csv.writer spells a cell: None as the empty string, the rest by str().
CsvCell(x) == IF x.k = "null" THEN <<>> ELSE StrOf(x)

\* DictWriter._dict_to_list: a key outside fieldnames raises ValueError
\* (extrasaction='raise'); a missing key is written as restval, "".
CsvRecord(fieldnames, row) ==
    IF \E j \in 1..Len(row.keys) : \A n \in 1..Len(fieldnames) : fieldnames[n] # row.keys[j]
    THEN [ok |-> FALSE]
    ELSE [ok |-> TRUE,
          cells |-> [n \in 1..Len(fieldnames) |-> CsvCell(RowGet(row, fieldnames[n]))]]

\* writer.writerows(rows): the records written before the first row that
\* raises, and whether every row was written.
RECURSIVE WriteRows(_, _, _)
WriteRows(fieldnames, rws, acc) ==
    IF rws = <<>> THEN [ok |-> TRUE, records |-> acc]
    ELSE LET r == CsvRecord(fieldnames, Head(rws))
         IN IF ~r.ok THEN [ok |-> FALSE, records |-> acc]
            ELSE WriteRows(fieldnames, Tail(rws), Append(acc, r.cells))

(* ------------------------------ single export ------------------------- *)
FeatureKeys == <<"key", "id">>

\* The audio-feature object of a track: some features and the track's id.
Features(id) == PyDict([key |-> PyInt(5), id |-> PyStr(id)])

IdA == <<"A">>
IdB == <<"B">>

ExportTracks ==
    {PyDict([Complete EXCEPT !.id = PyStr(IdA)]),
     PyDict([Complete EXCEPT !.id = PyStr(IdB), !.name = PyStr(<<"S">>)]),
     PyDict([Complete EXCEPT !.id = None, !.name = PyStr(<<"F">>)]),
     PyDict([Complete EXCEPT !.id = PyStr(IdA), !.album = None]),
     None}

ExportArgs ==
    [playlist : {LocatorHead \o <<"P", "1">>},
     format : {"csv", "html"},
     output : {<<>>, <<"r", ".html">>, <<"r", ".htm">>},
     include_audio_features : BOOLEAN]

\* What sp.audio_features answers for each id: its features, or null.
FeatureAnswers == [{IdA, IdB} -> {"features", "null"}]

InitExport ==
    /\ pc = "start"
    /\ args \in ExportArgs
    /\ \E n \in 0..MaxItems : \E ts \in [1..n -> ExportTracks] : \E fa \in FeatureAnswers :
          remote = [name |-> <<"M">>,
                    tracks |-> [j \in 1..n |-> Membership(PyStr(D2022), ts[j])],
                    features |-> [i \in {IdA, IdB} |->
                                    IF fa[i] = "features" THEN Features(i) ELSE None]]
    /\ files = <<>>
    /\ output = <<>>
    /\ err = ""
    /\ items = <<>>
    /\ s = <<>> /\ playlist_id = <<>>
    /\ FetchIdle /\ RowsIdle /\ SiteIdle

\* Lines 392-399: the identifier, the playlist's name, the output path.
Resolve ==
    /\ pc = "start"
    /\ s' = args.playlist
    /\ playlist_id' = extract_playlist_id(args.playlist)
    /\ output' = IF args.output # <<>> THEN args.output
                 ELSE IF args.format = "html" THEN playlist_id' \o <<".html">>
                 ELSE playlist_id' \o <<".csv">>
    /\ pc' = "fetch"
    /\ UNCHANGED <<items, fetchVars, rowVars, args, remote, files, err, siteVars>>

\* Lines 402-403: items = fetch_tracks(...); rows = to_rows(items).
FetchAndNormalise ==
    /\ pc = "fetch"
    /\ items' = remote.tracks
    /\ LET r == to_rows(remote.tracks)
       IN IF r.ok
          THEN rows' = r.rows /\ err' = "" /\ pc' = "enrich"
          ELSE rows' = <<>> /\ err' = r.err /\ pc' = "raised"
    /\ UNCHANGED <<created, fetchVars, idVars, args, remote, files, output, siteVars>>

\* [item['track']['id'] for item in items
\*      if item.get('track') and item['track'].get('id')]
RECURSIVE TrackIds(_)
TrackIds(its) ==
    IF its = <<>> THEN <<>>
    ELSE LET track == Get(Head(its), "track", None)
         IN IF Truthy(track) /\ Truthy(Get(track.v, "id", None))
            THEN <<track.v.id.v>> \o TrackIds(Tail(its))
            ELSE TrackIds(Tail(its))

\* row.update(features): the new keys follow the row's own, the values of
\* keys the row already has are replaced.
Update(row, features) ==
    LET added == SelectSeq(FeatureKeys,
                           LAMBDA f : \A j \in 1..Len(row.keys) : row.keys[j] # f)
    IN [keys |-> row.keys \o added,
        v |-> [f \in DOMAIN row.v \cup DOMAIN features.v |->
                 IF f \in DOMAIN features.v THEN features.v[f] ELSE row.v[f]]]

\* for row, features in zip(rows, features_list): if features: row.update(features)
Zipped(rws, features_list) ==
    [j \in 1..Len(rws) |->
       IF j <= Len(features_list) /\ Truthy(features_list[j])
       THEN Update(rws[j], features_list[j])
       ELSE rws[j]]

\* Lines 405-412: the optional audio-feature merge.
Enrich ==
    /\ pc = "enrich"
    /\ LET track_ids == TrackIds(items)
           features_list == [j \in 1..Len(track_ids) |-> remote.features[track_ids[j]]]
       IN rows' = IF args.include_audio_features /\ track_ids # <<>>
                  THEN Zipped(rows, features_list)
                  ELSE rows
    /\ pc' = "write"
    /\ UNCHANGED <<items, created, fetchVars, idVars, ioVars, siteVars>>

\* Lines 414-417: the hypertext document and its numbered list.
WriteHtml ==
    /\ pc = "write"
    /\ args.format = "html"
    /\ files' = generate_html(files, remote.name, FieldNames(rows), rows, output)
    /\ pc' = "done"
    /\ UNCHANGED <<items, fetchVars, rowVars, idVars, args, remote, output, err, siteVars>>

\* Lines 418-422: the tabular document; a ValueError leaves the header and the
\* records already written in the file.
WriteCsv ==
    /\ pc = "write"
    /\ args.format = "csv"
    /\ LET fieldnames == FieldNames(rows)
           w == WriteRows(fieldnames, rows, <<>>)
       IN /\ files' = (output :> [kind |-> "csv", header |-> fieldnames,
                                  records |-> w.records]) @@ files
          /\ IF w.ok THEN pc' = "done" /\ err' = ""
             ELSE pc' = "raised" /\ err' = "ValueError"
    /\ UNCHANGED <<items, fetchVars, rowVars, idVars, args, remote, output, siteVars>>

NextExport == Resolve \/ FetchAndNormalise \/ Enrich \/ WriteHtml \/ WriteCsv

SpecExport == InitExport /\ [][NextExport]_vars

\* C4: with enrichment on, the row built from a membership is merged with the
\* features of that membership's own track, and is left as to_rows built it
\* when the track has no id or its lookup is empty.
C4_RowMergedWithOwnFeatures ==
    (pc \in {"write", "done"} /\ args.include_audio_features) =>
        /\ Len(rows) = Len(WithTrack(items))
        /\ \A j \in 1..Len(rows) :
              LET track == WithTrack(items)[j].track.v
                  base == RowOf(WithTrack(items)[j]).row
                  id == Get(track, "id", None)
              IN IF Truthy(id) /\ Truthy(remote.features[id.v])
                 THEN /\ rows[j].v.id = id
                      /\ rows[j] = Update(base, remote.features[id.v])
                 ELSE rows[j] = base

\* The position of field in fieldnames, 0 when it is not one of them.
IndexOf(fieldnames, field) ==
    IF \E n \in 1..Len(fieldnames) : fieldnames[n] = field
    THEN CHOOSE n \in 1..Len(fieldnames) : fieldnames[n] = field
    ELSE 0

\* C7: in tabular mode, whatever rows the pipeline produced (none, plain, or
\* only some of them enriched), the write completes and the file holds the
\* field names as its header (the eight fixed names when there are no rows)
\* and one record per row whose cells are the string forms of the row's fields.
C7_TabularRoundTrip ==
    (pc \in {"done", "raised"} /\ args.format = "csv" /\ err \in {"", "ValueError"}) =>
        /\ pc = "done"
        /\ output \in DOMAIN files
        /\ files[output].kind = "csv"
        /\ files[output].header = FieldNames(rows)
        /\ rows = <<>> => files[output].header = BaseFields
        /\ Len(files[output].records) = Len(rows)
        /\ \A j \in 1..Len(rows) : \A n \in 1..Len(rows[j].keys) :
              LET field == rows[j].keys[n]
                  col == IndexOf(files[output].header, field)
              IN /\ col # 0
                 /\ files[output].records[j][col] = StrOf(rows[j].v[field])

Extensions == {".html", ".htm", ".csv", ".txt"}

\* The path with the same base name and the extension ".txt".
TxtCompanion(path) ==
    IF path # <<>> /\ path[Len(path)] \in Extensions
    THEN SubSeq(path, 1, Len(path) - 1) \o <<".txt">>
    ELSE path \o <<".txt">>

\* C8: after generate_html, whatever the output path, the document is at the
\* output path and the numbered list is in another file, of the same base
\* name and the extension ".txt": the playlist's name, then 'i. title -
\* artists' for each row in order, i from 1.
C8_CompanionBesideDocument ==
    (pc = "done" /\ args.format = "html") =>
        LET txt == TxtCompanion(output)
        IN /\ txt # output
           /\ output \in DOMAIN files
           /\ files[output].kind = "html"
           /\ txt \in DOMAIN files
           /\ files[txt].kind = "txt"
           /\ files[txt].name = remote.name
           /\ Len(files[txt].lines) = Len(rows)
           /\ \A j \in 1..Len(rows) :
                 files[txt].lines[j] =
                     IntToStr(j) \o <<".", " ">> \o rows[j].v.title.v
                     \o <<" ", "-", " ">> \o rows[j].v.artists.v

(* ------------------------------- full site ---------------------------- *)
TopN == 10

Sentinel == <<"9", "9", "9", "9", "-", "9", "9", "-", "9", "9", "T",
              "9", "9", ":", "9", "9", ":", "9", "9", "Z">>

Min(a, b) == IF a < b THEN a ELSE b

\* xs[:n]
Take(xs, n) == SubSeq(xs, 1, Min(n, Len(xs)))

\* sorted() on <<key, element>> pairs: each pair goes in before the first
\* pair whose key is greater, so equal keys keep their order (a stable sort).
RECURSIVE InsertPair(_, _)
InsertPair(acc, x) ==
    IF acc = <<>> THEN <<x>>
    ELSE IF StrLess(x[1], Head(acc)[1]) THEN <<x>> \o acc
    ELSE <<Head(acc)>> \o InsertPair(Tail(acc), x)

RECURSIVE SortPairs(_, _)
SortPairs(ps, acc) ==
    IF ps = <<>> THEN acc ELSE SortPairs(Tail(ps), InsertPair(acc, Head(ps)))

\* sorted(xs, key=...): keys[j] is the key of xs[j].
SortedBy(xs, keys) ==
    LET ps == SortPairs([j \in 1..Len(xs) |-> <<keys[j], xs[j]>>], <<>>)
    IN [j \in 1..Len(ps) |-> ps[j][2]]

\* x.get('created_date') or '9999-99-99T99:99:99Z'
CreatedKey(x) == Or(Get(x, "created_date", None), PyStr(Sentinel)).v

\* The same list in descending order: sorted(..., reverse=True).
sorted_latest_first(ps) ==
    LET asc == SortedBy(ps, [j \in 1..Len(ps) |-> CreatedKey(ps[j])])
    IN Take([j \in 1..Len(asc) |-> asc[Len(asc) + 1 - j]], TopN)
\* sorted(playlists, key=...)[:10]
sorted_by_created_date(ps) ==
    Take(SortedBy(ps, [j \in 1..Len(ps) |-> CreatedKey(ps[j])]), TopN)

\* c.lower() on the characters the names are made of.
Lower(c) ==
    CASE c = "A" -> "a" [] c = "B" -> "b" [] c = "C" -> "c" [] OTHER -> c

\* x.get('name', '').lower()
NameKey(x) == LET n == Get(x, "name", EmptyStr).v IN [j \in 1..Len(n) |-> Lower(n[j])]

\* created_date[:10] unless it is 'Unknown'
ShownDate(x) ==
    LET d == Get(x, "created_date", PyStr(Unknown)).v
    IN IF d # Unknown THEN Take(d, 10) ELSE d

\* One list entry of the index: the link target, the name, the track count.
Entry(x) == [href |-> x.id.v \o <<".html">>, name |-> x.name.v, total |-> x.total.v]

\* generate_landing_page: the three sections of index.html.
LandingPage(top, by_date, all) ==
    [kind |-> "index",
     top_albums |-> [j \in 1..Len(top) |-> Entry(top[j])],
     created_date |-> [j \in 1..Len(by_date) |->
                         [entry |-> Entry(by_date[j]), created |-> ShownDate(by_date[j])]],
     all_playlists |-> LET byname == SortedBy(all, [j \in 1..Len(all) |-> NameKey(all[j])])
                       IN [j \in 1..Len(byname) |-> Entry(byname[j])]]

IndexPath == <<"index", ".html">>

\* The remote catalog: playlist j of the listing, with its memberships.
PlaylistNames == <<<<"b">>, <<"A">>, <<"a">>, <<"C">>>>
RemotePlaylist(j, members) ==
    [id |-> PyStr(<<"p">> \o IntToStr(j)),
     name |-> PyStr(PlaylistNames[((j - 1) % 4) + 1] \o IntToStr(j)),
     members |-> members]

\* What the listing returns for a playlist: id, name, tracks.total.
Listed(p) == [id |-> p.id, name |-> p.name, total |-> PyInt(Len(p.members))]

Dated(m) == Membership(PyStr(m), PyDict(Complete))

SiteMembers ==
    {<<>>, <<Dated(D2022)>>, <<Dated(D2023), Dated(D2021)>>,
     <<Membership(PyStr(D2021), None), Membership(Absent, PyDict(Complete))>>,
     <<Membership(PyStr(D2023), PyDict([Complete EXCEPT !.album = None]))>>}

InitSite ==
    /\ pc = "start"
    /\ \E n \in 0..MaxSitePlaylists : \E ms \in [1..n -> SiteMembers] :
          remote = [j \in 1..n |-> RemotePlaylist(j, ms[j])]
    /\ playlists = <<>> /\ top_albums = <<>> /\ created_date_playlists = <<>>
    /\ idx = 0 /\ log = <<>>
    /\ args = <<>> /\ files = <<>> /\ output = <<>> /\ err = ""
    /\ items = <<>>
    /\ FetchIdle /\ RowsIdle /\ IdIdle

\* Lines 365-369: the paginated listing of the user's playlists.
ListPlaylists ==
    /\ pc = "start"
    /\ playlists' = [j \in 1..Len(remote) |-> Listed(remote[j])]
    /\ log' = Append(log, <<"list">>)
    /\ idx' = 1
    /\ pc' = "dates"
    /\ UNCHANGED <<items, fetchVars, rowVars, idVars, ioVars, top_albums, created_date_playlists>>

\* A remote call raises: nothing catches it, the run ends there.
RemoteFails ==
    /\ \/ pc = "start"
       \/ pc \in {"dates", "gen"} /\ idx <= Len(playlists)
    /\ err' = "RemoteError"
    /\ pc' = "aborted"
    /\ UNCHANGED <<items, fetchVars, rowVars, idVars, args, remote, files, output, siteVars>>

\* Lines 371-372, one pass: p['created_date'] = get_playlist_created_date(sp, p['id'])
SetCreatedDate ==
    /\ pc = "dates"
    /\ idx <= Len(playlists)
    /\ playlists' = [playlists EXCEPT ![idx] =
                        [id |-> @.id, name |-> @.name, total |-> @.total,
                         created_date |-> PyStr(get_playlist_created_date(remote[idx].members))]]
    /\ log' = Append(log, <<"fetch", playlists[idx].id.v>>)
    /\ idx' = idx + 1
    /\ UNCHANGED <<pc, items, fetchVars, rowVars, idVars, ioVars, top_albums, created_date_playlists>>

\* Lines 374-377: the two rankings.
Rank ==
    /\ pc = "dates"
    /\ idx > Len(playlists)
    /\ top_albums' = Take(playlists, TopN)
    /\ created_date_playlists' = sorted_by_created_date(playlists)
    /\ idx' = 1
    /\ pc' = "gen"
    /\ UNCHANGED <<items, fetchVars, rowVars, idVars, ioVars, playlists, log>>

\* Lines 379-387, one pass: fetch, normalise, write <id>.html and its list.
GeneratePlaylistPage ==
    /\ pc = "gen"
    /\ idx <= Len(playlists)
    /\ items' = remote[idx].members
    /\ LET pid == playlists[idx].id.v
           output_html == pid \o <<".html">>
           r == to_rows(remote[idx].members)
       IN IF r.ok
          THEN /\ rows' = r.rows
               /\ files' = generate_html(files, playlists[idx].name.v,
                                         FieldNames(r.rows), r.rows, output_html)
               /\ log' = log \o <<<<"fetch", pid>>, <<"write", output_html>>>>
               /\ idx' = idx + 1
               /\ UNCHANGED <<pc, err>>
          ELSE /\ rows' = <<>>
               /\ log' = Append(log, <<"fetch", pid>>)
               /\ err' = r.err
               /\ pc' = "raised"
               /\ UNCHANGED <<files, idx>>
    /\ UNCHANGED <<created, fetchVars, idVars, args, remote, output,
                   playlists, top_albums, created_date_playlists>>

\* Line 388: generate_landing_page(top_albums, created_date_playlists, playlists)
WriteIndex ==
    /\ pc = "gen"
    /\ idx > Len(playlists)
    /\ files' = (IndexPath :> LandingPage(top_albums, created_date_playlists, playlists)) @@ files
    /\ log' = Append(log, <<"write", IndexPath>>)
    /\ pc' = "done"
    /\ UNCHANGED <<items, fetchVars, rowVars, idVars, args, remote, output, err,
                   playlists, top_albums, created_date_playlists, idx>>

NextSite ==
    \/ ListPlaylists \/ RemoteFails \/ SetCreatedDate \/ Rank
    \/ GeneratePlaylistPage \/ WriteIndex

SpecSite == InitSite /\ [][NextSite]_vars

(* ------------------------------- ranking ------------------------------ *)
RankMembers ==
    {<<>>, <<Dated(D2022)>>, <<Dated(D2023), Membership(PyStr(D2021), None)>>}

\* The run when every playlist has its created_date (after line 372). The
\* catalog is three blocks of playlists, each block of any length and with
\* the memberships of one kind, so that dates come in and out of order, tie
\* within and across blocks, and are unknown anywhere in the catalog.
InitRank ==
    /\ pc = "dates"
    /\ \E n \in 0..MaxRanked : \E b1 \in 0..n : \E b2 \in b1..n :
       \E o \in [1..3 -> RankMembers] :
          remote = [j \in 1..n |->
                      RemotePlaylist(j, IF j <= b1 THEN o[1]
                                        ELSE IF j <= b2 THEN o[2] ELSE o[3])]
    /\ playlists = [j \in 1..Len(remote) |->
                      [id |-> remote[j].id, name |-> remote[j].name,
                       total |-> PyInt(Len(remote[j].members)),
                       created_date |-> PyStr(get_playlist_created_date(remote[j].members))]]
    /\ idx = Len(remote) + 1
    /\ top_albums = <<>> /\ created_date_playlists = <<>>
    /\ log = <<>>
    /\ args = <<>> /\ files = <<>> /\ output = <<>> /\ err = ""
    /\ items = <<>>
    /\ FetchIdle /\ RowsIdle /\ IdIdle

NextRank == Rank

SpecRank == InitRank /\ [][NextRank]_vars

\* The place of a playlist in the catalog.
CatalogIndex(x) == CHOOSE j \in 1..Len(playlists) : playlists[j].id = x.id

\* a's created_date sorts before b's: real dates ascending, "Unknown" after them.
DateBefore(a, b) ==
    /\ a.created_date.v # Unknown
    /\ b.created_date.v = Unknown \/ StrLess(a.created_date.v, b.created_date.v)

\* a comes before b in the ranking: by date, and by catalog order on a tie.
RankedBefore(a, b) ==
    \/ DateBefore(a, b)
    \/ a.created_date = b.created_date /\ CatalogIndex(a) < CatalogIndex(b)

\* C6: created_date_playlists holds min(10, N) of the N playlists, each once,
\* ascending by created_date with "Unknown" after every real date and ties in
\* catalog order, and every playlist left out ranks after every one kept.
C6_CreatedDateRanking ==
    pc = "gen" =>
        LET R == created_date_playlists
            kept == {R[j] : j \in 1..Len(R)}
            all == {playlists[j] : j \in 1..Len(playlists)}
        IN /\ Len(R) = Min(TopN, Len(playlists))
           /\ kept \subseteq all
           /\ Cardinality(kept) = Len(R)
           /\ \A j \in 1..Len(R) : \A n \in 1..Len(R) : j < n => RankedBefore(R[j], R[n])
           /\ \A x \in all \ kept : \A y \in kept : RankedBefore(y, x)

C6_Witness ==
    /\ pc = "gen"
    /\ Len(playlists) = TopN + 1
    /\ Len(created_date_playlists) = TopN
    /\ playlists[1].created_date.v = Unknown
    /\ playlists[2].created_date.v = Unknown
    /\ playlists[3].created_date.v = D2022
    /\ playlists[TopN + 1].created_date.v = D2021
    /\ created_date_playlists[1] = playlists[TopN + 1]
    /\ created_date_playlists[TopN] = playlists[1]

\* What a full-site run over the catalog does, in order, when nothing fails.
RECURSIVE PagesLog(_)
PagesLog(j) ==
    IF j > Len(remote) THEN <<>>
    ELSE <<<<"fetch", remote[j].id.v>>, <<"write", remote[j].id.v \o <<".html">>>>>>
         \o PagesLog(j + 1)

FullLog ==
    <<<<"list">>>> \o [j \in 1..Len(remote) |-> <<"fetch", remote[j].id.v>>]
    \o PagesLog(1) \o <<<<"write", IndexPath>>>>

\* The complete document of playlist j.
CompletePage(j) ==
    LET rws == to_rows(remote[j].members).rows
        path == remote[j].id.v \o <<".html">>
    IN HtmlDocument(remote[j].name.v, FieldNames(rws), rws, replace_html_txt(path))

\* C9: a full-site run handles the playlists one at a time in catalog order; with
\* no remote error it writes <id>.html for every playlist and index.html last;
\* when a remote fetch fails it stops there, index.html is not written, and
\* each <id>.html that exists is complete.
C9_FullSiteRun ==
    pc \in {"done", "raised", "aborted"} =>
        /\ Len(log) <= Len(FullLog)
        /\ log = SubSeq(FullLog, 1, Len(log))
        /\ err # "RemoteError" =>
              /\ pc = "done"
              /\ log = FullLog
              /\ IndexPath \in DOMAIN files
              /\ \A j \in 1..Len(remote) : remote[j].id.v \o <<".html">> \in DOMAIN files
        /\ err = "RemoteError" =>
              /\ pc = "aborted"
              /\ IndexPath \notin DOMAIN files
        /\ \A j \in 1..Len(remote) :
              remote[j].id.v \o <<".html">> \in DOMAIN files =>
                  files[remote[j].id.v \o <<".html">>] = CompletePage(j)

====
